---- MODULE Spec2Model ----
(***************************************************************************)
(* TinyEKF, python/tinyekf/__init__.py: the class EKF (constructor and     *)
(* step) and _Matrix.invert, over the NumPy operations they call.          *)
(*                                                                         *)
(* Numbers.  A float is modelled by a fixed-point integer with Scale units *)
(* to 1.0, every product and quotient rounded to the nearest unit (a       *)
(* coarser grid than float64, same algebra).  Products and quotients are   *)
(* computed limb by limb so that no intermediate leaves 32 bits.           *)
(*                                                                         *)
(* Arrays.  A 2-D ndarray is a record [rows, cols, data, err]; err = ""    *)
(* for a value, otherwise the record stands for the exception the          *)
(* expression raised and every later operator passes it on (the leftmost   *)
(* operand first, as Python evaluates).  A 1-D array of length L takes     *)
(* part in broadcasting as a 1 x L array and is modelled as one.           *)
(*                                                                         *)
(* The callbacks f, getF, h, getH belong to the embedding application.     *)
(* They return ndarrays, as their docstrings require (lines 85-86, 93-94,  *)
(* 101-103, 110-111); app.fault selects a callback that breaks that        *)
(* contract.  f is the identity np.copy(x), h the linear observation       *)
(* np.dot(H, x) with H the matrix getH returns, and the Jacobians do not   *)
(* depend on x.  Two objects never share storage in this file (f copies),  *)
(* so arrays are modelled as values.                                       *)
(***************************************************************************)
EXTENDS Integers, Sequences, FiniteSets, TLC

\* ------------------------------------------------------------------ bounds
MaxDim == 2
MaxSteps == 2
LongRun == 20

\* -------------------------------------------------------------- arithmetic
Limb == 10^3
Scale == Limb * Limb

Abs(a) == IF a < 0 THEN -a ELSE a
Sgn(a) == IF a < 0 THEN -1 ELSE 1

\* round(a*b/Scale) for a, b >= 0
MulMag(a, b) ==
  LET a1 == a \div Limb
      a0 == a % Limb
      b1 == b \div Limb
      b0 == b % Limb
      mid == a1 * b0 + a0 * b1 + ((a0 * b0 + (Scale \div 2)) \div Limb)
  IN  a1 * b1 + (mid \div Limb)

\* float multiplication
FMul(a, b) == Sgn(a) * Sgn(b) * MulMag(Abs(a), Abs(b))

\* digits of rem/b after the point, most significant first
RECURSIVE Frac(_, _, _)
Frac(rem, b, unit) ==
  IF unit = 0 THEN (IF 2 * rem >= b THEN 1 ELSE 0)
  ELSE ((rem * 10) \div b) * unit + Frac((rem * 10) % b, b, unit \div 10)

\* round(a*Scale/b) for a >= 0, b > 0
DivMag(a, b) == (a \div b) * Scale + Frac(a % b, b, Scale \div 10)

\* float division
FDiv(a, b) == Sgn(a) * Sgn(b) * DivMag(Abs(a), Abs(b))

\* ------------------------------------------------------------------ arrays
Mat(r, c, E(_, _)) ==
  [rows |-> r, cols |-> c,
   data |-> [i \in 1..r |-> [j \in 1..c |-> E(i, j)]], err |-> ""]

Raise(e) == [rows |-> 0, cols |-> 0, data |-> <<>>, err |-> e]

\* the Python value None
None == Raise("None")

IsErr(A) == A.err # ""

\* np.zeros((r, c))
np_zeros(r, c) ==
  IF r < 0 \/ c < 0 THEN Raise("ValueError")
  ELSE Mat(r, c, LAMBDA i, j : 0)

\* np.eye(r, c)
np_eye(r, c) ==
  IF r < 0 \/ c < 0 THEN Raise("ValueError")
  ELSE Mat(r, c, LAMBDA i, j : IF i = j THEN Scale ELSE 0)

\* ndarray * float
ScalarMul(A, s) ==
  IF IsErr(A) THEN A
  ELSE Mat(A.rows, A.cols, LAMBDA i, j : FMul(A.data[i][j], s))

\* broadcast of one axis; -1 when the lengths are incompatible
BDim(a, b) == IF a = b THEN a ELSE IF a = 1 THEN b ELSE IF b = 1 THEN a ELSE -1

\* entry (i, j) of A stretched by broadcasting
At(A, i, j) ==
  A.data[IF A.rows = 1 THEN 1 ELSE i][IF A.cols = 1 THEN 1 ELSE j]

\* an elementwise binary ufunc with broadcasting
Elementwise(A, B, Op(_, _)) ==
  IF IsErr(A) THEN A
  ELSE IF IsErr(B) THEN B
  ELSE IF BDim(A.rows, B.rows) < 0 \/ BDim(A.cols, B.cols) < 0
       THEN Raise("ValueError")
  ELSE Mat(BDim(A.rows, B.rows), BDim(A.cols, B.cols),
           LAMBDA i, j : Op(At(A, i, j), At(B, i, j)))

\* ndarray * ndarray: the elementwise product
np_mul(A, B) == Elementwise(A, B, FMul)

\* ndarray + ndarray
np_add(A, B) == Elementwise(A, B, LAMBDA a, b : a + b)

\* ndarray - ndarray
np_sub(A, B) == Elementwise(A, B, LAMBDA a, b : a - b)

\* ndarray.T
np_T(A) ==
  IF IsErr(A) THEN A ELSE Mat(A.cols, A.rows, LAMBDA i, j : A.data[j][i])

\* np.copy
np_copy(A) == A

RECURSIVE DotSum(_, _, _, _, _)
DotSum(A, B, i, j, k) ==
  IF k = 0 THEN 0
  ELSE DotSum(A, B, i, j, k - 1) + FMul(A.data[i][k], B.data[k][j])

\* np.dot: the matrix product
np_dot(A, B) ==
  IF IsErr(A) THEN A
  ELSE IF IsErr(B) THEN B
  ELSE IF A.cols # B.rows THEN Raise("ValueError")
  ELSE Mat(A.rows, B.cols, LAMBDA i, j : DotSum(A, B, i, j, A.cols))

\* A without row p and column q
Minor(A, p, q) ==
  Mat(A.rows - 1, A.cols - 1,
      LAMBDA i, j : A.data[IF i < p THEN i ELSE i + 1][IF j < q THEN j ELSE j + 1])

RECURSIVE Det(_)
RECURSIVE DetSum(_, _)
DetSum(A, k) ==
  IF k = 0 THEN 0
  ELSE DetSum(A, k - 1)
       + (IF k % 2 = 1 THEN 1 ELSE -1) * FMul(A.data[1][k], Det(Minor(A, 1, k)))

\* determinant of a square array
Det(A) == IF A.rows = 0 THEN Scale ELSE DetSum(A, A.cols)

\* np.linalg.inv: LinAlgError for a non-square or singular array; the
\* inverse of an empty array is empty
np_linalg_inv(A) ==
  IF IsErr(A) THEN A
  ELSE IF A.rows # A.cols THEN Raise("LinAlgError")
  ELSE IF A.rows > 0 /\ Det(A) = 0 THEN Raise("LinAlgError")
  ELSE Mat(A.rows, A.cols,
           LAMBDA i, j : FDiv((IF (i + j) % 2 = 0 THEN 1 ELSE -1)
                              * Det(Minor(A, j, i)), Det(A)))

\* np.array(z) for a tuple z
np_array(z) == Mat(1, Len(z), LAMBDA i, j : z[j])

\* a += b on ndarrays: b must broadcast to the shape of a
iadd(A, B) ==
  LET s == np_add(A, B)
  IN  IF IsErr(s) THEN s
      ELSE IF s.rows # A.rows \/ s.cols # A.cols THEN Raise("ValueError")
      ELSE s


\* ------------------------------------------------- embedding application
\* defaults of EKF.__init__
DefaultPval == 100000
DefaultQval == 100
DefaultRval == 100000

Default == [pval |-> DefaultPval, qval |-> DefaultQval, rval |-> DefaultRval]
\* the end-to-end scenario: pval = 1.0, qval = 1e-4, rval = 0.1
Scenario == [pval |-> Scale, qval |-> Scale \div 10000, rval |-> Scale \div 10]
\* equal variances, far from the resolution of the grid
Coarse == [pval |-> Scale \div 10, qval |-> Scale \div 10, rval |-> Scale \div 10]
\* no measurement noise
ZeroR == [pval |-> Scale \div 10, qval |-> Scale \div 10, rval |-> 0]
\* an initial variance below the filter's steady state
SmallP == [pval |-> Scale \div 1000, qval |-> Scale \div 10000, rval |-> Scale \div 10]

Faults == {"f_raises", "f_shape", "h_raises", "h_shape", "F_shape", "H_shape"}

\* the observation tuple of length L with every entry v
ZVec(L, v) == [i \in 1..L |-> v]
Five == 5 * Scale
Zs == {ZVec(L, Five) : L \in 0..MaxDim}

MkApp(n, m, par, Fk, Hk, fault, feed, horizon) ==
  [n |-> n, m |-> m, pval |-> par.pval, qval |-> par.qval, rval |-> par.rval,
   Fk |-> Fk, Hk |-> Hk, fault |-> fault, feed |-> feed, horizon |-> horizon]

\* subclasses, constructor arguments and feeding patterns explored
Apps ==
  {MkApp(n, m, par, Fk, Hk, "none", Zs, MaxSteps) :
     n \in -1..MaxDim, m \in -1..MaxDim, par \in {Coarse, ZeroR},
     Fk \in {"eye", "shear"}, Hk \in {"eye", "zero", "shear"}}
  \cup
  {MkApp(n, m, Coarse, "eye", "eye", fault, Zs, MaxSteps) :
     n \in 1..MaxDim, m \in 1..MaxDim, fault \in Faults}
  \cup
  {MkApp(n, n, par, "eye", "eye", "none", {ZVec(n, Five)}, LongRun) :
     n \in 1..MaxDim, par \in {Scenario, Default, SmallP, Coarse}}

NoApp == MkApp(0, 0, Default, "eye", "eye", "none", {}, 0)

\* a Jacobian that does not depend on x
Jac(kind, r, c) ==
  IF r < 0 \/ c < 0 THEN Raise("ValueError")
  ELSE Mat(r, c, LAMBDA i, j :
         IF kind = "eye" THEN (IF i = j THEN Scale ELSE 0)
         ELSE IF kind = "shear" THEN (IF i <= j THEN Scale ELSE 0)
         ELSE 0)

\* getF of the subclass
getF(a, x) ==
  IF a.fault = "F_shape" THEN Jac(a.Fk, a.n + 1, a.n + 1) ELSE Jac(a.Fk, a.n, a.n)

\* getH of the subclass
getH(a, x) ==
  IF a.fault = "H_shape" THEN Jac(a.Hk, a.m + 1, a.n) ELSE Jac(a.Hk, a.m, a.n)

\* f of the subclass: "typically this is just the identity function np.copy(x)"
f(a, x) ==
  IF a.fault = "f_raises" THEN Raise("CallbackError")
  ELSE IF a.fault = "f_shape" THEN np_zeros(a.n + 1, 1)
  ELSE np_copy(x)

\* h of the subclass: the linear observation whose Jacobian is getH
h(a, x) ==
  IF a.fault = "h_raises" THEN Raise("CallbackError")
  ELSE IF a.fault = "h_shape" THEN np_zeros(a.m + 1, 1)
  ELSE np_dot(Jac(a.Hk, a.m, a.n), x)

\* ------------------------------------------------------- pieces of the EKF
\* line 38: np.eye(n) * pval
PInit(a) == ScalarMul(np_eye(a.n, a.n), a.pval)

\* line 45: np.eye(n) * qval
QInit_pval(a) == ScalarMul(np_eye(a.n, a.n), a.pval)
QInit(a) == ScalarMul(np_eye(a.n, a.n), a.qval)

\* line 46: np.eye(m) * rval
RInit(a) == ScalarMul(np_eye(a.m, a.m), a.rval)

\* line 63: self.FF * self.PP_post * self.FF.T + self.QQ
Predict(F, P, Q) == np_add(np_mul(np_mul(F, P), np_T(F)), Q)

\* line 71, second argument of np.dot: self.HH * self.PP_pre * self.HH.T + self.RR
InnovCov(H, P, R) == np_add(np_mul(np_mul(H, P), np_T(H)), R)

\* line 71: the gain
Gain(P, H, R) == np_dot(np_mul(P, np_T(H)), np_linalg_inv(InnovCov(H, P, R)))

\* line 74, second argument of np.dot: (np.array(z) - self.h(self.xx).T).T
Innovation_noh(z, hx) == np_T(np_array(z))
Innovation(z, hx) == np_T(np_sub(np_array(z), np_T(hx)))

\* line 77: np.dot(self.II - np.dot(GG, self.HH), self.PP_pre)
CovUpdate_mul(I, G, H, P) == np_mul(np_sub(I, np_mul(G, H)), P)
CovUpdate_skip(I, G, H, P) == np_copy(P)
CovUpdate(I, G, H, P) == np_dot(np_sub(I, np_dot(G, H)), P)

\* ------------------------------------------------------------------- state
VARIABLES
  ekf,        \* "none", "ready", or "failed" (the constructor raised)
  app,        \* the subclass and constructor arguments
  xx, PP_pre, PP_post, FF, HH, QQ, RR, II,   \* the fields of the EKF object
  GG,         \* the gain of the latest step that reached line 71
  nsteps,     \* calls of step so far
  zin,        \* the argument of the latest call of step
  outcome,    \* how the latest call on the EKF ended
  getFCalls, getHCalls,   \* the arguments getF and getH were called with
  proc,       \* "running" or "exited"
  stdout,     \* lines printed
  inv_out     \* the value returned by the latest _Matrix.invert

fields == <<xx, PP_pre, PP_post, FF, HH, QQ, RR, II>>
vars == <<ekf, app, xx, PP_pre, PP_post, FF, HH, QQ, RR, II, GG, nsteps, zin,
          outcome, getFCalls, getHCalls, proc, stdout, inv_out>>

Init ==
  /\ ekf = "none" /\ app = NoApp
  /\ xx = None /\ PP_pre = None /\ PP_post = None /\ FF = None /\ HH = None
  /\ QQ = None /\ RR = None /\ II = None /\ GG = None
  /\ nsteps = 0 /\ zin = <<>> /\ outcome = "none"
  /\ getFCalls = <<>> /\ getHCalls = <<>>
  /\ proc = "running" /\ stdout = 0 /\ inv_out = None

\* the first exception among the values, in evaluation order; "" if none
RECURSIVE FirstErr(_)
FirstErr(s) ==
  IF s = <<>> THEN ""
  ELSE IF IsErr(Head(s)) THEN Head(s).err ELSE FirstErr(Tail(s))

\* EKF.__init__
Construct(a) ==
  /\ ekf = "none" /\ proc = "running"
  /\ LET x0 == np_zeros(a.n, 1)
         P0 == PInit(a)
         F0 == getF(a, x0)
         H0 == getH(a, x0)
         Q0 == QInit(a)
         R0 == RInit(a)
         I0 == np_eye(a.n, a.n)
         e  == FirstErr(<<x0, P0, F0, H0, Q0, R0, I0>>)
     IN  /\ getFCalls' = IF FirstErr(<<x0, P0>>) = "" THEN Append(getFCalls, x0) ELSE getFCalls
         /\ getHCalls' = IF FirstErr(<<x0, P0, F0>>) = "" THEN Append(getHCalls, x0) ELSE getHCalls
         /\ IF e = ""
            THEN /\ ekf' = "ready" /\ outcome' = "constructed"
                 /\ xx' = x0 /\ PP_pre' = None /\ PP_post' = P0
                 /\ FF' = F0 /\ HH' = H0 /\ QQ' = Q0 /\ RR' = R0 /\ II' = I0
            ELSE /\ ekf' = "failed" /\ outcome' = e
                 /\ UNCHANGED fields
  /\ app' = a
  /\ UNCHANGED <<GG, nsteps, zin, proc, stdout, inv_out>>

\* EKF.step
Step(z) ==
  /\ ekf = "ready" /\ proc = "running"
  /\ nsteps < app.horizon /\ z \in app.feed
  /\ LET x60 == f(app, xx)
         P63 == Predict(FF, PP_post, QQ)
         P65 == np_copy(P63)
         G71 == Gain(P63, HH, RR)
         x74 == IF IsErr(x60) THEN x60
                ELSE iadd(x60, np_dot(G71, Innovation(z, h(app, x60))))
         P77 == CovUpdate(II, G71, HH, P63)
     IN  IF IsErr(x60) THEN
            /\ outcome' = x60.err
            /\ UNCHANGED <<xx, PP_pre, PP_post, GG>>
         ELSE IF IsErr(P63) THEN
            /\ outcome' = P63.err
            /\ xx' = x60
            /\ UNCHANGED <<PP_pre, PP_post, GG>>
         ELSE IF IsErr(G71) THEN
            /\ outcome' = G71.err
            /\ xx' = x60 /\ PP_pre' = P63 /\ PP_post' = P65
            /\ UNCHANGED GG
         ELSE IF IsErr(x74) THEN
            /\ outcome' = x74.err
            /\ xx' = x60 /\ PP_pre' = P63 /\ PP_post' = P65 /\ GG' = G71
         ELSE IF IsErr(P77) THEN
            /\ outcome' = P77.err
            /\ xx' = x74 /\ PP_pre' = P63 /\ PP_post' = P65 /\ GG' = G71
         ELSE
            /\ outcome' = "returned"
            /\ xx' = x74 /\ PP_pre' = P63 /\ PP_post' = P77 /\ GG' = G71
  /\ nsteps' = nsteps + 1 /\ zin' = z
  /\ UNCHANGED <<ekf, app, FF, HH, QQ, RR, II, getFCalls, getHCalls,
                 proc, stdout, inv_out>>

\* arguments given to _Matrix.invert
InvertInputs ==
  {Mat(1, 1, LAMBDA i, j : 2 * Scale), np_zeros(1, 1), np_zeros(MaxDim, MaxDim)}

\* _Matrix.invert, self.data = A
MatrixInvert(A) ==
  /\ proc = "running"
  /\ LET r == np_linalg_inv(A)
     IN  IF IsErr(r)
         THEN /\ stdout' = stdout + 2 /\ proc' = "exited"
              /\ UNCHANGED inv_out
         ELSE /\ inv_out' = r
              /\ UNCHANGED <<stdout, proc>>
  /\ UNCHANGED <<ekf, app, xx, PP_pre, PP_post, FF, HH, QQ, RR, II, GG, nsteps,
                 zin, outcome, getFCalls, getHCalls>>

DoConstruct == \E a \in Apps : Construct(a)
DoStep == \E z \in Zs : Step(z)
DoInvert == \E A \in InvertInputs : MatrixInvert(A)

Next == DoConstruct \/ DoStep \/ DoInvert

Spec == Init /\ [][Next]_vars

\* ------------------------------------------------------------- properties
\* n and m are positive and every callback keeps its contract
WellBehaved == app.fault = "none" /\ app.n >= 1 /\ app.m >= 1

\* ... and pval, qval, rval are positive
Valid == WellBehaved /\ app.pval > 0 /\ app.qval > 0 /\ app.rval > 0

\* A is k x k with v on the diagonal and 0 elsewhere
IsScaledEye(A, k, v) ==
  /\ A.err = "" /\ A.rows = k /\ A.cols = k
  /\ \A i \in 1..k : \A j \in 1..k : A.data[i][j] = (IF i = j THEN v ELSE 0)

\* the innovation covariance the coming step will form is singular
SingularInnov ==
  LET S == InnovCov(HH, Predict(FF, PP_post, QQ), RR)
  IN  /\ ~IsErr(S) /\ S.rows = S.cols /\ S.rows > 0
      /\ Det(S) = 0

\* C1: a call of step with an observation of length m that fails (singular
\* innovation covariance, or f or h raising or returning a wrong shape)
\* leaves x and P_post as they were before it.
C1_FailedStepKeepsState ==
  [][(/\ nsteps' = nsteps + 1 /\ app.n >= 1 /\ app.m >= 1
      /\ Len(zin') = app.m /\ outcome' # "returned")
       => (xx' = xx /\ PP_post' = PP_post)]_vars

\* C2: when H.P_pre.H^T + R is singular, step raises the singular-matrix
\* error to its caller with x and P_post untouched, and nothing is printed
\* and the process keeps running.
C2_SingularIsReported ==
  [][(nsteps' = nsteps + 1 /\ WellBehaved /\ SingularInnov)
       => (/\ outcome' = "LinAlgError"
           /\ xx' = xx /\ PP_post' = PP_post
           /\ proc' = "running" /\ stdout' = stdout)]_vars

\* C3: step(z) with len(z) # m fails with a dimension error and leaves x and
\* P_post as they were.
C3_WrongLengthRejected ==
  [][(nsteps' = nsteps + 1 /\ Valid /\ Len(zin') # app.m)
       => (outcome' = "ValueError" /\ xx' = xx /\ PP_post' = PP_post)]_vars

\* C4: no ready engine has a non-positive dimension, an F that is not n x n
\* or an H that is not m x n.
C4_NoInvalidEngine ==
  ekf = "ready" =>
    /\ app.n >= 1 /\ app.m >= 1
    /\ FF.rows = app.n /\ FF.cols = app.n
    /\ HH.rows = app.m /\ HH.cols = app.n

\* C5: the predict phase sets P_pre to the matrix product F.P_post.F^T plus Q,
\* P_post being the value held before the call.
C5_PredictIsMatrixProduct ==
  [][(nsteps' = nsteps + 1 /\ Valid /\ outcome' = "returned")
       => PP_pre' = np_add(np_dot(np_dot(FF, PP_post), np_T(FF)), QQ)]_vars

\* C6: getF and getH are called once each, by the constructor and with the
\* zero state, never by step; F, H, Q = qval.I_n, R = rval.I_m and I_n keep
\* their construction-time values through every step.
C6_JacobiansOnceConstantsFixed ==
  /\ Len(getFCalls) <= 1 /\ Len(getHCalls) <= 1
  /\ ekf = "ready" =>
       /\ getFCalls = <<np_zeros(app.n, 1)>>
       /\ getHCalls = <<np_zeros(app.n, 1)>>
       /\ FF = getF(app, np_zeros(app.n, 1))
       /\ HH = getH(app, np_zeros(app.n, 1))
       /\ IsScaledEye(QQ, app.n, app.qval)
       /\ IsScaledEye(RR, app.m, app.rval)
       /\ IsScaledEye(II, app.n, Scale)

C6_Witness ==
  /\ ekf = "ready" /\ nsteps >= 2 /\ outcome = "returned"
  /\ app.n = 2 /\ app.qval # app.pval

\* C7: with n, m >= 1 and well-behaved callbacks, after a step that returned
\* the state has n entries, P_post is n x n, the gain of that step is n x m,
\* and the dimensions are those of construction (I_n is n x n, R is m x m).
C7_ShapesKept ==
  (ekf = "ready" /\ WellBehaved /\ outcome = "returned") =>
    /\ xx.rows = app.n /\ xx.cols = 1
    /\ PP_post.rows = app.n /\ PP_post.cols = app.n
    /\ GG.rows = app.n /\ GG.cols = app.m
    /\ II.rows = app.n /\ II.cols = app.n
    /\ RR.rows = app.m /\ RR.cols = app.m

C7_Witness ==
  /\ ekf = "ready" /\ WellBehaved /\ outcome = "returned"
  /\ app.n = 1 /\ app.m = 2 /\ nsteps >= 2

SymTol == Limb \div 10

\* C8: P_post is symmetric after construction and after every step that
\* returned (within a tolerance of 1e-4).
C8_PostSymmetric ==
  (ekf = "ready" /\ Valid /\ outcome \in {"constructed", "returned"}) =>
    \A i \in 1..PP_post.rows : \A j \in 1..PP_post.cols :
      Abs(PP_post.data[i][j] - PP_post.data[j][i]) <= SymTol

\* the end-to-end scenario: n = m = 1, identity model, pval = 1.0,
\* qval = 1e-4, rval = 0.1, z = 5.0 on every call
ScenarioRun ==
  /\ ekf = "ready" /\ app.fault = "none" /\ app.n = 1 /\ app.m = 1
  /\ app.Fk = "eye" /\ app.Hk = "eye"
  /\ app.pval = Scenario.pval /\ app.qval = Scenario.qval /\ app.rval = Scenario.rval
  /\ app.feed = {<<Five>>}

\* C9 as stated: after 20 calls of step(5.0) in the scenario, |x - 5.0| < 0.01.
C9_Within001 ==
  (ScenarioRun /\ nsteps = 20) => Abs(xx.data[1][1] - Five) < Scale \div 100

\* C9 amended: after 20 calls of step(5.0) in the scenario, |x - 5.0| < 0.025.
C9_Within0025 ==
  (ScenarioRun /\ nsteps = 20) => Abs(xx.data[1][1] - Five) < Scale \div 40

C9_Witness == ScenarioRun /\ nsteps = 20 /\ outcome = "returned"

\* identity model (f, h the identity, F = H = I), one observation fed on
\* every call
IdentityRun ==
  /\ ekf = "ready" /\ Valid /\ app.n = app.m
  /\ app.Fk = "eye" /\ app.Hk = "eye"
  /\ Cardinality(app.feed) = 1

\* pval is at or above the fixed point of P -> (P + q) r / (P + q + r)
AboveSteady == FMul(app.pval, app.pval + app.qval) >= FMul(app.qval, app.rval)

\* C10 as stated: in an identity run no diagonal entry of P_post is larger
\* after a step than before it.
C10_DiagNonIncreasing ==
  [][(nsteps' = nsteps + 1 /\ IdentityRun /\ outcome' = "returned")
       => \A i \in 1..app.n : PP_post'.data[i][i] <= PP_post.data[i][i]]_vars

\* C10 amended: in an identity run with positive pval, qval, rval and
\* pval (pval + qval) >= qval rval, no
\* diagonal entry of P_post is larger after a step than before it by more
\* than one unit of rounding.
C10_DiagNonIncreasingAboveSteady ==
  [][(nsteps' = nsteps + 1 /\ IdentityRun /\ AboveSteady /\ outcome' = "returned")
       => \A i \in 1..app.n : PP_post'.data[i][i] <= PP_post.data[i][i] + 1]_vars

C10_Witness ==
  /\ IdentityRun /\ AboveSteady /\ outcome = "returned"
  /\ app.n = 2 /\ nsteps = 20
  /\ PP_post.data[2][2] < app.pval

====
